---- MODULE Spec2Model ----
(***************************************************************************)
(* Model of UniformResourceProvider<T>                                     *)
(* (src/render/render_resource/resource_providers/                         *)
(*  uniform_resource_provider.rs).                                         *)
(*                                                                         *)
(* The provider is driven once per frame through update(); between frames  *)
(* the application mutates the world and the asset stores.  One call of    *)
(* update() is split at its five sequential passes; `pc` is the position   *)
(* inside update(), and no other action is enabled while it is running.    *)
(***************************************************************************)
EXTENDS Integers, Sequences, FiniteSets, TLC

\* ------------------------------------------------------------------ bounds
MaxEntities == 3
MaxFrames == 2

\* --------------------------------------------------------------- constants
BIND_BUFFER_ALIGNMENT == 256

NoResource == 0          \* Option<RenderResource>::None
NoEntity == 0
NoHandle == 0

Entities == 1..MaxEntities
Handles == {1, 2}         \* Handle<T> values
TextureHandles == {1}     \* Handle<Texture> values

\* One binding of a uniforms value, as produced by UniformInfoIter:
\* the name, the bind type, the bytes accessor that answers for the name
\* ("ref": get_uniform_bytes_ref, "owned": get_uniform_bytes), the byte
\* length and the texture handle of a texture or sampler binding.
Binding(name, kind, bytes, len, texture) ==
    [name |-> name, kind |-> kind, bytes |-> bytes, len |-> len, texture |-> texture]

\* The values of T the world and the asset store hold.  The bindings of a
\* value depend on the value (UniformInfoIter::new(field_infos, uniforms)).
\* "mute" breaks the contract of AsUniforms: it declares a Uniform binding
\* and answers for it with neither accessor.  "sampled" has a sampler and
\* no texture binding.
Values == {"color", "tinted", "textured", "mute", "sampled"}

get_field_infos(uniforms) ==
    CASE uniforms = "color" ->
            << Binding("Color", "Uniform", "ref", 4, NoHandle) >>
      [] uniforms = "tinted" ->
            << Binding("Color", "Uniform", "owned", 16, NoHandle),
               Binding("Tint", "Uniform", "ref", 4, NoHandle) >>
      [] uniforms = "textured" ->
            << Binding("Tint", "Uniform", "owned", 16, NoHandle),
               Binding("Tex", "SampledTexture", "none", 0, 1),
               Binding("TexSampler", "Sampler", "none", 0, 1) >>
      [] uniforms = "mute" ->
            << Binding("Color", "Uniform", "none", 0, NoHandle) >>
      [] uniforms = "sampled" ->
            << Binding("TexSampler", "Sampler", "none", 0, 1) >>

get_shader_defs(uniforms) ==
    CASE uniforms = "color" -> {}
      [] uniforms = "tinted" -> {"TINTED"}
      [] uniforms = "textured" -> {"TEXTURED"}
      [] uniforms = "mute" -> {}
      [] uniforms = "sampled" -> {}

\* the names of the Uniform bindings, in the order the provider's hash map
\* is iterated
UniformNames == << "Color", "Tint" >>

\* the values entities carry directly, and the value an asset handle
\* resolves to once it is loaded
DirectValues == {"color", "textured"}
AssetValue(handle) ==
    CASE handle = 1 -> "tinted"
      [] handle = 2 -> "textured"
      [] OTHER -> "mute"

\* the component an entity carries next to its Renderable
NoComponent == [tag |-> "none", value |-> "", handle |-> NoHandle]
Direct(v) == [tag |-> "direct", value |-> v, handle |-> NoHandle]
Backed(h) == [tag |-> "handle", value |-> "", handle |-> h]
Components == {Direct(v) : v \in DirectValues} \cup {Backed(h) : h \in Handles}

\* the handle and the components of a world whose values may break the
\* contract of AsUniforms
MuteHandle == 3
AnyHandles == Handles \cup {MuteHandle}
AnyComponents == Components \cup {Direct("mute"), Backed(MuteHandle)}

\* the components of a world whose values all carry a texture handle
TextureComponents == {Direct("textured"), Direct("sampled"), Backed(2)}

\* the shader defs the application gave the Renderable it spawned
renderable_shader_defs(c) == IF c = Direct("color") THEN {"INSTANCED"} ELSE {}

\* ----------------------------------------------------------------- helpers
Put(f, k, v) == [x \in (DOMAIN f) \cup {k} |-> IF x = k THEN v ELSE f[x]]
Range(s) == {s[i] : i \in DOMAIN s}
Empty == [x \in {} |-> 0]

\* ---------------------------------------------------------------- renderer
\* One call made on the Renderer trait object during the current update().
Call(op, res, src, size, entity, name, key, writes) ==
    [op |-> op, res |-> res, src |-> src, size |-> size, entity |-> entity,
     name |-> name, key |-> key, writes |-> writes]

NewRenderer ==
    [resources |-> Empty,                      \* live GPU objects: id -> kind, size
     texture_resources |-> Empty,              \* Handle<Texture> -> texture
     texture_sampler_resources |-> Empty,      \* Handle<Texture> -> sampler
     dynamic_uniform_buffer_infos |-> Empty,   \* buffer -> DynamicUniformBufferInfo
     named_resources |-> Empty,                \* name -> buffer
     entity_uniform_resources |-> Empty,       \* <<entity, name>> -> resource
     calls |-> << >>]

\* A resource handle the backend has not handed out: not live, and not
\* named by any call of this frame (a removed staging buffer keeps its id
\* for the rest of the frame).
UsedIds(r) == (DOMAIN r.resources) \cup {r.calls[i].res : i \in DOMAIN r.calls}
NewResource(r) ==
    CHOOSE id \in 1..(Cardinality(UsedIds(r)) + 1) :
        /\ id \notin UsedIds(r)
        /\ \A j \in 1..(id - 1) : j \in UsedIds(r)

Log(r, call) == [r EXCEPT !.calls = Append(@, call)]

create_buffer(r, id, size) ==
    Log([r EXCEPT !.resources = Put(@, id, [kind |-> "buffer", size |-> size])],
        Call("create_buffer", id, NoResource, size, NoEntity, "", NoHandle, << >>))

create_buffer_mapped(r, id, size, writes) ==
    Log([r EXCEPT !.resources = Put(@, id, [kind |-> "mapped", size |-> size])],
        Call("create_buffer_mapped", id, NoResource, size, NoEntity, "", NoHandle, writes))

copy_buffer_to_buffer(r, src, dst, size) ==
    Log(r, Call("copy_buffer_to_buffer", dst, src, size, NoEntity, "", NoHandle, << >>))

\* a removal the backend records but that leaves the buffer live
remove_buffer_keep(r, id) ==
    Log(r, Call("remove_buffer", id, NoResource, 0, NoEntity, "", NoHandle, << >>))

remove_buffer(r, id) ==
    Log([r EXCEPT !.resources = [x \in (DOMAIN @) \ {id} |-> @[x]]],
        Call("remove_buffer", id, NoResource, 0, NoEntity, "", NoHandle, << >>))

create_texture(r, id, texture) ==
    Log([r EXCEPT !.resources = Put(@, id, [kind |-> "texture", size |-> 0])],
        Call("create_texture", id, NoResource, 0, NoEntity, "", texture, << >>))

create_sampler(r, id, texture) ==
    Log([r EXCEPT !.resources = Put(@, id, [kind |-> "sampler", size |-> 0])],
        Call("create_sampler", id, NoResource, 0, NoEntity, "", texture, << >>))

set_entity_uniform_resource(r, entity, name, resource) ==
    Log([r EXCEPT !.entity_uniform_resources = Put(@, << entity, name >>, resource)],
        Call("set_entity_uniform_resource", resource, NoResource, 0, entity, name,
             NoHandle, << >>))

\* a texture lookup that the sampler cache answers when the texture cache
\* has no entry
get_texture_resource_shared(r, texture) ==
    IF texture \in DOMAIN r.texture_resources
    THEN r.texture_resources[texture]
    ELSE IF texture \in DOMAIN r.texture_sampler_resources
         THEN r.texture_sampler_resources[texture] ELSE NoResource

\* a texture lookup that never finds the cached texture
get_texture_resource_miss(r, texture) == NoResource

get_texture_resource(r, texture) ==
    IF texture \in DOMAIN r.texture_resources
    THEN r.texture_resources[texture] ELSE NoResource

\* a sampler lookup that never finds the cached sampler
get_texture_sampler_resource_miss(r, texture) == NoResource

get_texture_sampler_resource(r, texture) ==
    IF texture \in DOMAIN r.texture_sampler_resources
    THEN r.texture_sampler_resources[texture] ELSE NoResource

NewInfo == [count |-> 0, capacity |-> 0, offsets |-> Empty]

\* ---------------------------------------------------------------- provider
NewProvider ==
    [uniform_buffer_info_resources |-> Empty,  \* name -> (resource, count, entities)
     asset_resources |-> Empty]                \* Handle<T> -> (name -> resource)

\* the state the passes of update() thread through: provider, renderer and
\* whether the pass is still running (FALSE after a panic)
State(p, r, ok) == [p |-> p, r |-> r, ok |-> ok]
Panic(s) == [s EXCEPT !.ok = FALSE]

\* lines 103-113: register the entity for the dynamic buffer of the name
register_dynamic_uniform(s, entity, name) ==
    LET infos == IF name \in DOMAIN s.p.uniform_buffer_info_resources
                 THEN s.p.uniform_buffer_info_resources
                 ELSE Put(s.p.uniform_buffer_info_resources, name,
                          [resource |-> NoResource, count |-> 0, entities |-> {}])
    IN  [s EXCEPT !.p.uniform_buffer_info_resources =
            [infos EXCEPT ![name] = [@ EXCEPT !.entities = @ \cup {entity},
                                              !.count = @ + 1]]]

\* a lookup that never finds the cached resource
get_asset_resource_miss(resources, name) == NoResource

\* line 122: resources.get(uniform_info.name)
get_asset_resource(resources, name) ==
    IF name \in DOMAIN resources THEN resources[name] ELSE NoResource

\* an upload that maps and removes the staging buffer but never copies it
upload_asset_uniform_no_copy(s, binding, render_resource) ==
    IF binding.bytes \in {"ref", "owned"}
    THEN LET tmp_buffer == NewResource(s.r)
             r1 == create_buffer_mapped(s.r, tmp_buffer, binding.len, << >>)
         IN  [s EXCEPT !.r = remove_buffer(r1, tmp_buffer)]
    ELSE Panic(s)

\* lines 142-180: upload the bytes of the binding through a staging buffer
upload_asset_uniform(s, binding, render_resource) ==
    IF binding.bytes \in {"ref", "owned"}
    THEN LET tmp_buffer == NewResource(s.r)
             r1 == create_buffer_mapped(s.r, tmp_buffer, binding.len, << >>)
             r2 == copy_buffer_to_buffer(r1, tmp_buffer, render_resource, binding.len)
         IN  [s EXCEPT !.r = remove_buffer(r2, tmp_buffer)]
    ELSE Panic(s)

\* a match that hands on the new handle whether or not the lookup hit
resolve_asset_resource_new(cached, created) == created

\* lines 122-134: the cached resource on a hit, the created one on a miss
resolve_asset_resource(cached, created) ==
    IF cached # NoResource THEN cached ELSE created

\* lines 115-181: the asset-backed path of a Uniform binding
setup_asset_uniform(s, entity, binding, handle) ==
    LET asset_resources == IF handle \in DOMAIN s.p.asset_resources
                           THEN s.p.asset_resources
                           ELSE Put(s.p.asset_resources, handle, Empty)
        cached == get_asset_resource(asset_resources[handle], binding.name)
        created == NewResource(s.r)
        render_resource == resolve_asset_resource(cached, created)
        r1 == IF cached # NoResource THEN s.r
              ELSE create_buffer(s.r, created, BIND_BUFFER_ALIGNMENT)
        p1 == [s.p EXCEPT !.asset_resources =
                  IF cached # NoResource THEN asset_resources
                  ELSE [asset_resources EXCEPT ![handle] = Put(@, binding.name, created)]]
        r2 == set_entity_uniform_resource(r1, entity, binding.name, render_resource)
    IN  upload_asset_uniform(State(p1, r2, TRUE), binding, render_resource)

\* lines 183-204: resolve the texture of a SampledTexture binding and bind it
setup_sampled_texture(s, entity, binding, loaded) ==
    LET cached == get_texture_resource(s.r, binding.texture)
        created == NewResource(s.r)
    IN  IF cached # NoResource
        THEN [s EXCEPT !.r = set_entity_uniform_resource(@, entity, binding.name, cached)]
        ELSE IF binding.texture \notin loaded
        THEN Panic(s)
        ELSE LET r1 == create_texture(s.r, created, binding.texture)
                 r2 == [r1 EXCEPT !.texture_resources = Put(@, binding.texture, created)]
             IN  [s EXCEPT !.r = set_entity_uniform_resource(r2, entity, binding.name,
                                                             created)]

\* lines 205-225: resolve the sampler of a Sampler binding and bind it
setup_sampler(s, entity, binding, loaded) ==
    LET cached == get_texture_sampler_resource(s.r, binding.texture)
        created == NewResource(s.r)
    IN  IF cached # NoResource
        THEN [s EXCEPT !.r = set_entity_uniform_resource(@, entity, binding.name, cached)]
        ELSE IF binding.texture \notin loaded
        THEN Panic(s)
        ELSE LET r1 == create_sampler(s.r, created, binding.texture)
                 r2 == [r1 EXCEPT !.texture_sampler_resources =
                            Put(@, binding.texture, created)]
             IN  [s EXCEPT !.r = set_entity_uniform_resource(r2, entity, binding.name,
                                                             created)]

\* lines 100-230: the match on uniform_info.bind_type
setup_binding(s, entity, binding, loaded, dynamic_unforms, asset_handle) ==
    CASE binding.kind = "Uniform" ->
            IF dynamic_unforms
            THEN register_dynamic_uniform(s, entity, binding.name)
            ELSE setup_asset_uniform(s, entity, binding, asset_handle)
      [] binding.kind = "SampledTexture" ->
            setup_sampled_texture(s, entity, binding, loaded)
      [] binding.kind = "Sampler" ->
            setup_sampler(s, entity, binding, loaded)
      [] OTHER -> Panic(s)

RECURSIVE setup_bindings(_, _, _, _, _, _, _)
setup_bindings(s, entity, infos, i, loaded, dynamic_unforms, asset_handle) ==
    IF ~s.ok \/ i > Len(infos) THEN s
    ELSE setup_bindings(
            setup_binding(s, entity, infos[i], loaded, dynamic_unforms, asset_handle),
            entity, infos, i + 1, loaded, dynamic_unforms, asset_handle)

\* lines 89-232
setup_entity_uniform_resources(s, entity, uniforms, loaded, dynamic_unforms, asset_handle) ==
    setup_bindings(s, entity, get_field_infos(uniforms), 1, loaded, dynamic_unforms,
                   asset_handle)

\* the entities the queries of the provider iterate, in world order
resource_query(w, comp) == SelectSeq(w, LAMBDA e : comp[e].tag = "direct")
handle_query(w, comp) == SelectSeq(w, LAMBDA e : comp[e].tag = "handle")

\* lines 63-87
RECURSIVE update_asset_uniforms(_, _, _, _, _, _)
update_asset_uniforms(s, order, i, comp, loaded_assets, loaded_textures) ==
    IF ~s.ok \/ i > Len(order) THEN s
    ELSE LET entity == order[i]
             handle == comp[entity].handle
             s1 == IF handle \in loaded_assets
                   THEN setup_entity_uniform_resources(s, entity, AssetValue(handle),
                                                       loaded_textures, FALSE, handle)
                   ELSE s
         IN  update_asset_uniforms(s1, order, i + 1, comp, loaded_assets,
                                   loaded_textures)

\* lines 353-355
RECURSIVE register_entities(_, _, _, _, _)
register_entities(s, order, i, comp, loaded_textures) ==
    IF ~s.ok \/ i > Len(order) THEN s
    ELSE register_entities(
            setup_entity_uniform_resources(s, order[i], comp[order[i]].value,
                                           loaded_textures, TRUE, NoHandle),
            order, i + 1, comp, loaded_textures)

\* a reset that also forgets the offsets the buffer handed out
reset_count_clear(s, name) ==
    LET entry == s.p.uniform_buffer_info_resources[name]
    IN  IF entry.resource = NoResource
           \/ entry.resource \notin DOMAIN s.r.dynamic_uniform_buffer_infos
        THEN Panic(s)
        ELSE State([s.p EXCEPT !.uniform_buffer_info_resources[name].count = 0],
                   [s.r EXCEPT !.dynamic_uniform_buffer_infos[entry.resource] =
                       [@ EXCEPT !.count = 0, !.offsets = Empty]],
                   TRUE)

\* a reset that checks the buffer but leaves both counts as they are
reset_count_keep(s, name) ==
    LET entry == s.p.uniform_buffer_info_resources[name]
    IN  IF entry.resource = NoResource
           \/ entry.resource \notin DOMAIN s.r.dynamic_uniform_buffer_infos
        THEN Panic(s)
        ELSE s

\* lines 342-349: reset all uniform buffer info counts
reset_count(s, name) ==
    LET entry == s.p.uniform_buffer_info_resources[name]
    IN  IF entry.resource = NoResource
           \/ entry.resource \notin DOMAIN s.r.dynamic_uniform_buffer_infos
        THEN Panic(s)
        ELSE State([s.p EXCEPT !.uniform_buffer_info_resources[name].count = 0],
                   [s.r EXCEPT !.dynamic_uniform_buffer_infos[entry.resource].count = 0],
                   TRUE)

RECURSIVE reset_counts(_, _)
reset_counts(s, i) ==
    IF ~s.ok \/ i > Len(UniformNames) THEN s
    ELSE reset_counts(IF UniformNames[i] \in DOMAIN s.p.uniform_buffer_info_resources
                      THEN reset_count(s, UniformNames[i]) ELSE s,
                      i + 1)

\* a capacity that leaves no room to grow
initial_capacity_exact(count) == count

\* line 247: allocate enough space for twice as many entities as there are currently
initial_capacity(count) == count * 2

\* an allocation that creates the buffer but records no info for it
allocate_uniform_buffer_no_info(s, name) ==
    LET entry == s.p.uniform_buffer_info_resources[name]
        count == entry.count
    IN  IF entry.resource # NoResource
        THEN IF entry.resource \notin DOMAIN s.r.dynamic_uniform_buffer_infos
             THEN Panic(s)
             ELSE [s EXCEPT !.r.dynamic_uniform_buffer_infos[entry.resource].count = count]
        ELSE LET capacity == initial_capacity(count)
                 size == BIND_BUFFER_ALIGNMENT * capacity
                 created_resource == NewResource(s.r)
                 r1 == create_buffer(s.r, created_resource, size)
                 r3 == Log([r1 EXCEPT !.named_resources = Put(@, name, created_resource)],
                           Call("set_named_resource", created_resource, NoResource, 0,
                                NoEntity, name, NoHandle, << >>))
             IN  State([s.p EXCEPT !.uniform_buffer_info_resources[name].resource =
                            created_resource],
                       r3, TRUE)

\* lines 236-260: the allocation pass for one binding name
allocate_uniform_buffer(s, name) ==
    LET entry == s.p.uniform_buffer_info_resources[name]
        count == entry.count
    IN  IF entry.resource # NoResource
        THEN IF entry.resource \notin DOMAIN s.r.dynamic_uniform_buffer_infos
             THEN Panic(s)
             ELSE [s EXCEPT !.r.dynamic_uniform_buffer_infos[entry.resource].count = count]
        ELSE LET capacity == initial_capacity(count)
                 size == BIND_BUFFER_ALIGNMENT * capacity
                 created_resource == NewResource(s.r)
                 r1 == create_buffer(s.r, created_resource, size)
                 info == [NewInfo EXCEPT !.count = count, !.capacity = capacity]
                 r2 == [r1 EXCEPT !.dynamic_uniform_buffer_infos =
                            Put(@, created_resource, info)]
                 r3 == Log([r2 EXCEPT !.named_resources = Put(@, name, created_resource)],
                           Call("set_named_resource", created_resource, NoResource, 0,
                                NoEntity, name, NoHandle, << >>))
             IN  State([s.p EXCEPT !.uniform_buffer_info_resources[name].resource =
                            created_resource],
                       r3, TRUE)

RECURSIVE allocate_uniform_buffers(_, _)
allocate_uniform_buffers(s, i) ==
    IF ~s.ok \/ i > Len(UniformNames) THEN s
    ELSE allocate_uniform_buffers(
            IF UniformNames[i] \in DOMAIN s.p.uniform_buffer_info_resources
            THEN allocate_uniform_buffer(s, UniformNames[i]) ELSE s,
            i + 1)

\* line 285: offset += alignment
next_offset(offset) == offset + BIND_BUFFER_ALIGNMENT

\* a membership test that lets every iterated entity through
is_registered_always(entities, entity) == TRUE

\* line 277: if !entities.contains(&entity) { continue; }
is_registered(entities, entity) == entity \in entities

\* lines 271-286: the offset of every iterated entity of the registration set
RECURSIVE assign_offsets(_, _, _, _, _)
assign_offsets(offsets, order, i, entities, offset) ==
    IF i > Len(order) THEN offsets
    ELSE IF ~is_registered(entities, order[i])
    THEN assign_offsets(offsets, order, i + 1, entities, offset)
    ELSE assign_offsets(Put(offsets, order[i], offset), order, i + 1, entities,
                        next_offset(offset))

\* get_uniform_bytes_ref(name), else get_uniform_bytes(name): the Uniform
\* binding of the value that answers for the name, if any
uniform_bytes(uniforms, name) ==
    LET infos == get_field_infos(uniforms)
        found == {i \in DOMAIN infos : /\ infos[i].name = name
                                       /\ infos[i].kind = "Uniform"
                                       /\ infos[i].bytes \in {"ref", "owned"}}
    IN  IF found = {} THEN Binding(name, "Uniform", "none", 0, NoHandle)
        ELSE infos[CHOOSE i \in found : TRUE]

\* lines 291-312: the closure that writes the mapped staging buffer; a write
\* is << entity, offset, length >>, and a slice out of the buffer panics
RECURSIVE pack_uniforms(_, _, _, _, _, _, _, _)
pack_uniforms(writes, order, i, entities, name, comp, offset, size) ==
    IF i > Len(order) THEN [writes |-> writes, ok |-> TRUE]
    ELSE IF ~is_registered(entities, order[i])
    THEN pack_uniforms(writes, order, i + 1, entities, name, comp, offset, size)
    ELSE LET bytes == uniform_bytes(comp[order[i]].value, name)
         IN  IF bytes.bytes = "none"
             THEN pack_uniforms(writes, order, i + 1, entities, name, comp, offset, size)
             ELSE IF offset + bytes.len > size
             THEN [writes |-> writes, ok |-> FALSE]
             ELSE pack_uniforms(Append(writes, << order[i], offset, bytes.len >>),
                                order, i + 1, entities, name, comp,
                                offset + BIND_BUFFER_ALIGNMENT, size)

\* lines 263-319: offsets, packing and upload for one binding name
copy_entity_uniforms(s, name, order, comp) ==
    LET entry == s.p.uniform_buffer_info_resources[name]
        resource == entry.resource
    IN  IF resource = NoResource
           \/ resource \notin DOMAIN s.r.dynamic_uniform_buffer_infos
        THEN Panic(s)
        ELSE LET info == s.r.dynamic_uniform_buffer_infos[resource]
                 size == BIND_BUFFER_ALIGNMENT * info.count
                 offsets == assign_offsets(info.offsets, order, 1, entry.entities, 0)
                 r1 == [s.r EXCEPT !.dynamic_uniform_buffer_infos[resource].offsets =
                            offsets]
                 packed == pack_uniforms(<< >>, order, 1, entry.entities, name, comp,
                                         0, size)
                 mapped_buffer_resource == NewResource(r1)
                 r2 == create_buffer_mapped(r1, mapped_buffer_resource, size,
                                            packed.writes)
                 r3 == copy_buffer_to_buffer(r2, mapped_buffer_resource, resource, size)
             IN  IF packed.ok
                 THEN [s EXCEPT !.r = remove_buffer(r3, mapped_buffer_resource)]
                 ELSE State(s.p, r1, FALSE)

RECURSIVE copy_uniform_buffers(_, _, _, _)
copy_uniform_buffers(s, i, order, comp) ==
    IF ~s.ok \/ i > Len(UniformNames) THEN s
    ELSE copy_uniform_buffers(
            IF UniformNames[i] \in DOMAIN s.p.uniform_buffer_info_resources
            THEN copy_entity_uniforms(s, UniformNames[i], order, comp) ELSE s,
            i + 1, order, comp)

\* a Phase B whose copy pass runs a second time
setup_dynamic_uniform_buffers_twice(s, order, comp) ==
    copy_uniform_buffers(
        copy_uniform_buffers(allocate_uniform_buffers(s, 1), 1, order, comp),
        1, order, comp)

\* lines 234-320
setup_dynamic_uniform_buffers(s, order, comp) ==
    copy_uniform_buffers(allocate_uniform_buffers(s, 1), 1, order, comp)

\* a pass that assigns the declared defs instead of inserting them
insert_direct_defs_replace(defs, w, comp) ==
    [e \in DOMAIN defs |->
        IF e \in Range(w) /\ comp[e].tag = "direct"
        THEN get_shader_defs(comp[e].value) ELSE defs[e]]

\* lines 359-379: update shader assignments based on current macro defs
insert_direct_defs(defs, w, comp) ==
    [e \in DOMAIN defs |->
        IF e \in Range(w) /\ comp[e].tag = "direct"
        THEN defs[e] \cup get_shader_defs(comp[e].value) ELSE defs[e]]

RECURSIVE insert_asset_defs(_, _, _, _, _)
insert_asset_defs(d, order, i, comp, loaded_assets) ==
    IF ~d.ok \/ i > Len(order) THEN d
    ELSE LET entity == order[i]
             handle == comp[entity].handle
         IN  IF handle \notin loaded_assets
             THEN [d EXCEPT !.ok = FALSE]
             ELSE insert_asset_defs(
                    [d EXCEPT !.defs[entity] = @ \cup get_shader_defs(AssetValue(handle))],
                    order, i + 1, comp, loaded_assets)

VARIABLES
    world,          \* live entities with a Renderable, in query-iteration order
    component,      \* entity -> the T or Handle<T> component it carries
    shader_defs,    \* entity -> renderable.shader_defs
    next_entity,    \* the next entity id the world hands out
    asset_storage,  \* resources.get::<AssetStorage<T>>() is Some
    assets,         \* handles of T that asset_storage.get() resolves
    textures,       \* texture handles AssetStorage<Texture>.get() resolves
    provider,       \* UniformResourceProvider<T>: uniform_buffer_info_resources, asset_resources
    renderer,       \* dyn Renderer: resources, caches, infos, bindings, calls of this frame
    initialized,    \* initialize() has been called
    frame,          \* calls of initialize() and update() so far
    pc              \* position inside update()

vars == << world, component, shader_defs, next_entity, asset_storage, assets,
           textures, provider, renderer, initialized, frame, pc >>

\* ------------------------------------------------------------------- state
Init ==
    /\ world = << >>
    /\ component = [e \in Entities |-> NoComponent]
    /\ shader_defs = [e \in Entities |-> {}]
    /\ next_entity = 1
    /\ asset_storage = FALSE
    /\ assets = {}
    /\ textures = {}
    /\ provider = NewProvider
    /\ renderer = NewRenderer
    /\ initialized = FALSE
    /\ frame = 0
    /\ pc = "idle"

\* update() is not running
Idle == pc \in {"idle", "done"}

\* the application changes the world only when a frame is still to come
Between == Idle /\ frame < MaxFrames

\* ------------------------------------------- the application, between frames
\* Entities are spawned with their component and despawned; an entity keeps
\* the component it was spawned with.
Spawn(c) ==
    /\ Between
    /\ next_entity <= MaxEntities
    /\ world' = Append(world, next_entity)
    /\ component' = [component EXCEPT ![next_entity] = c]
    /\ shader_defs' = [shader_defs EXCEPT ![next_entity] = renderable_shader_defs(c)]
    /\ next_entity' = next_entity + 1
    /\ pc' = "idle"
    /\ UNCHANGED << asset_storage, assets, textures, provider, renderer, initialized,
                    frame >>

\* the world removes an entity by moving the last one into its place
swap_remove(w, e) ==
    LET i == CHOOSE k \in DOMAIN w : w[k] = e
        moved == [w EXCEPT ![i] = w[Len(w)]]
    IN  SubSeq(moved, 1, Len(w) - 1)

Despawn(e) ==
    /\ Between
    /\ e \in Range(world)
    /\ world' = swap_remove(world, e)
    /\ component' = [component EXCEPT ![e] = NoComponent]
    /\ shader_defs' = [shader_defs EXCEPT ![e] = {}]
    /\ pc' = "idle"
    /\ UNCHANGED << next_entity, asset_storage, assets, textures, provider, renderer,
                    initialized, frame >>

AddAssetStorage ==
    /\ Between
    /\ ~asset_storage
    /\ asset_storage' = TRUE
    /\ pc' = "idle"
    /\ UNCHANGED << world, component, shader_defs, next_entity, assets, textures,
                    provider, renderer, initialized, frame >>

InsertAsset(h) ==
    /\ Between
    /\ asset_storage
    /\ h \notin assets
    /\ assets' = assets \cup {h}
    /\ pc' = "idle"
    /\ UNCHANGED << world, component, shader_defs, next_entity, asset_storage, textures,
                    provider, renderer, initialized, frame >>

InsertTexture(t) ==
    /\ Between
    /\ t \notin textures
    /\ textures' = textures \cup {t}
    /\ pc' = "idle"
    /\ UNCHANGED << world, component, shader_defs, next_entity, asset_storage, assets,
                    provider, renderer, initialized, frame >>

\* ------------------------------------------------------ the provider, a frame
Advance(s, next) ==
    /\ provider' = s.p
    /\ renderer' = s.r
    /\ pc' = IF s.ok THEN next ELSE "aborted"

\* lines 336-349: update() starts by resetting the counts
BeginUpdate ==
    /\ frame < MaxFrames
    /\ frame' = frame + 1
    /\ Advance(reset_counts(State(provider, [renderer EXCEPT !.calls = << >>], TRUE), 1),
               "assets")
    /\ UNCHANGED << world, component, shader_defs, next_entity, asset_storage, assets,
                    textures >>

\* lines 327-334
Initialize ==
    /\ pc = "idle"
    /\ ~initialized
    /\ initialized' = TRUE
    /\ BeginUpdate

Update ==
    /\ Idle
    /\ initialized
    /\ UNCHANGED initialized
    /\ BeginUpdate

\* line 351
UpdateAssetUniforms ==
    /\ pc = "assets"
    /\ Advance(IF asset_storage
               THEN update_asset_uniforms(State(provider, renderer, TRUE),
                                          handle_query(world, component), 1, component,
                                          assets, textures)
               ELSE State(provider, renderer, TRUE),
               "direct")
    /\ UNCHANGED << world, component, shader_defs, next_entity, asset_storage, assets,
                    textures, initialized, frame >>

\* lines 353-355
RegisterEntities ==
    /\ pc = "direct"
    /\ Advance(register_entities(State(provider, renderer, TRUE),
                                 resource_query(world, component), 1, component,
                                 textures),
               "dynamic")
    /\ UNCHANGED << world, component, shader_defs, next_entity, asset_storage, assets,
                    textures, initialized, frame >>

\* line 357
SetupDynamicUniformBuffers ==
    /\ pc = "dynamic"
    /\ Advance(setup_dynamic_uniform_buffers(State(provider, renderer, TRUE),
                                             resource_query(world, component),
                                             component),
               "defs")
    /\ UNCHANGED << world, component, shader_defs, next_entity, asset_storage, assets,
                    textures, initialized, frame >>

\* lines 359-380
UpdateShaderDefs ==
    /\ pc = "defs"
    /\ LET direct == insert_direct_defs(shader_defs, world, component)
           d == IF asset_storage
                THEN insert_asset_defs([defs |-> direct, ok |-> TRUE],
                                       handle_query(world, component), 1, component,
                                       assets)
                ELSE [defs |-> direct, ok |-> TRUE]
       IN  /\ shader_defs' = d.defs
           /\ pc' = IF d.ok THEN "done" ELSE "aborted"
    /\ UNCHANGED << world, component, next_entity, asset_storage, assets, textures,
                    provider, renderer, initialized, frame >>

Next ==
    \/ \E c \in Components : Spawn(c)
    \/ \E e \in Entities : Despawn(e)
    \/ AddAssetStorage
    \/ \E h \in Handles : InsertAsset(h)
    \/ \E t \in TextureHandles : InsertTexture(t)
    \/ Initialize
    \/ Update
    \/ UpdateAssetUniforms
    \/ RegisterEntities
    \/ SetupDynamicUniformBuffers
    \/ UpdateShaderDefs

Spec == Init /\ [][Next]_vars

\* the same program in a world whose values may break the contract of
\* AsUniforms
NextAny ==
    \/ \E c \in AnyComponents : Spawn(c)
    \/ \E e \in Entities : Despawn(e)
    \/ AddAssetStorage
    \/ \E h \in AnyHandles : InsertAsset(h)
    \/ \E t \in TextureHandles : InsertTexture(t)
    \/ Initialize
    \/ Update
    \/ UpdateAssetUniforms
    \/ RegisterEntities
    \/ SetupDynamicUniformBuffers
    \/ UpdateShaderDefs

SpecAny == Init /\ [][NextAny]_vars

\* the same program in a world of textured values
NextTextures ==
    \/ \E c \in TextureComponents : Spawn(c)
    \/ \E e \in Entities : Despawn(e)
    \/ AddAssetStorage
    \/ \E h \in Handles : InsertAsset(h)
    \/ \E t \in TextureHandles : InsertTexture(t)
    \/ Initialize
    \/ Update
    \/ UpdateAssetUniforms
    \/ RegisterEntities
    \/ SetupDynamicUniformBuffers
    \/ UpdateShaderDefs

SpecTextures == Init /\ [][NextTextures]_vars

\* ------------------------------------------------------------------- types
TypeOK ==
    /\ Range(world) \subseteq Entities
    /\ pc \in {"idle", "assets", "direct", "dynamic", "defs", "done", "aborted"}
    /\ next_entity \in 1..(MaxEntities + 1)

\* ------------------------------------------------------------ observations
\* the resource the static cache holds for (handle, name), if any
Cached(p, handle, name) ==
    IF handle \in DOMAIN p.asset_resources
       /\ name \in DOMAIN p.asset_resources[handle]
    THEN p.asset_resources[handle][name]
    ELSE NoResource

\* the calls a step appends to the calls of the frame
NewCalls ==
    IF Len(renderer'.calls) >= Len(renderer.calls)
    THEN SubSeq(renderer'.calls, Len(renderer.calls) + 1, Len(renderer'.calls))
    ELSE renderer'.calls

CallsOf(calls, op) == {i \in DOMAIN calls : calls[i].op = op}

AllNames == Range(UniformNames)
Pairs == Handles \X AllNames
LiveBacked == {e \in Range(world) : component[e].tag = "handle"}
LiveDirect == {e \in Range(world) : component[e].tag = "direct"}

\* the names of the Uniform bindings of a value
UniformNamesOf(uniforms) ==
    {b.name : b \in {x \in Range(get_field_infos(uniforms)) : x.kind = "Uniform"}}

\* -------------------------------------------------------------- properties

\* C1: Static Resource Cache dedup.  A step of update() calls create_buffer
\* on the asset-backed path once for every (handle, name) pair it meets for
\* the first time and never for a pair that already has an entry; an entry,
\* once recorded, keeps its resource handle in every later step, and every
\* binding the asset pass makes for a pair names the recorded handle.
C1_StaticCacheDedup ==
    [][ /\ \A pair \in Pairs :
              Cached(provider, pair[1], pair[2]) # NoResource
                  => Cached(provider', pair[1], pair[2])
                        = Cached(provider, pair[1], pair[2])
        /\ pc = "assets" =>
              /\ Cardinality(CallsOf(NewCalls, "create_buffer"))
                    = Cardinality({pair \in Pairs :
                          /\ Cached(provider, pair[1], pair[2]) = NoResource
                          /\ Cached(provider', pair[1], pair[2]) # NoResource})
              /\ \A i \in CallsOf(NewCalls, "create_buffer") :
                    \E pair \in Pairs :
                        /\ Cached(provider, pair[1], pair[2]) = NoResource
                        /\ Cached(provider', pair[1], pair[2]) = NewCalls[i].res
              /\ \A i \in CallsOf(NewCalls, "set_entity_uniform_resource") :
                    NewCalls[i].name \in AllNames =>
                        NewCalls[i].res
                            = Cached(provider', component[NewCalls[i].entity].handle,
                                     NewCalls[i].name)
      ]_vars

\* C1 witness: the asset pass of the second frame has bound an entity to a
\* resource of the static cache that no create_buffer of this frame made.
C1_Witness ==
    /\ pc = "direct"
    /\ frame = 2
    /\ \E e \in LiveBacked, n \in AllNames :
          /\ Cached(provider, component[e].handle, n) # NoResource
          /\ \E i \in CallsOf(renderer.calls, "set_entity_uniform_resource") :
                /\ renderer.calls[i].entity = e
                /\ renderer.calls[i].name = n
                /\ renderer.calls[i].res = Cached(provider, component[e].handle, n)
          /\ \A i \in CallsOf(renderer.calls, "create_buffer") :
                renderer.calls[i].res # Cached(provider, component[e].handle, n)

\* the pairs a step adds to the static cache
NewPairs ==
    {pair \in Pairs : /\ Cached(provider, pair[1], pair[2]) = NoResource
                      /\ Cached(provider', pair[1], pair[2]) # NoResource}

\* call i of the calls binds a Uniform name to a resource that the call
\* before it did not create: a hit of the static cache
IsCacheHit(calls, i) ==
    /\ calls[i].op = "set_entity_uniform_resource"
    /\ calls[i].name \in AllNames
    /\ ~(i > 1 /\ calls[i - 1].op = "create_buffer" /\ calls[i - 1].res = calls[i].res)

\* calls i+1 .. i+3 upload into the resource call i binds: map a staging
\* buffer, copy it into the resource, remove it
IsUpload(calls, i) ==
    /\ i + 3 <= Len(calls)
    /\ calls[i + 1].op = "create_buffer_mapped"
    /\ calls[i + 2].op = "copy_buffer_to_buffer"
    /\ calls[i + 2].src = calls[i + 1].res
    /\ calls[i + 2].res = calls[i].res
    /\ calls[i + 2].size = calls[i + 1].size
    /\ calls[i + 3].op = "remove_buffer"
    /\ calls[i + 3].res = calls[i + 1].res

\* C2 as stated: a cache hit does no upload work.  Only a miss of the static
\* cache may allocate a staging buffer or issue a copy, so the asset pass
\* maps at most one staging buffer and issues at most one copy per pair it
\* adds to the cache.
C2_Original ==
    [][ pc = "assets" =>
          /\ Cardinality(CallsOf(NewCalls, "create_buffer_mapped"))
                <= Cardinality(NewPairs)
          /\ Cardinality(CallsOf(NewCalls, "copy_buffer_to_buffer"))
                <= Cardinality(NewPairs)
      ]_vars

\* C2 amended: a cache hit creates no persistent buffer and re-associates
\* the cached resource with the entity, but it uploads again: it maps one
\* staging buffer, copies it into the cached resource and removes it.
C2_HitUploadsAgain ==
    [][ (pc = "assets" /\ pc' = "direct") =>
          /\ Cardinality(CallsOf(NewCalls, "create_buffer")) = Cardinality(NewPairs)
          /\ \A i \in DOMAIN NewCalls :
                IsCacheHit(NewCalls, i) =>
                    /\ NewCalls[i].res
                          = Cached(provider, component[NewCalls[i].entity].handle,
                                   NewCalls[i].name)
                       \/ \E j \in 1..(i - 1) :
                             /\ NewCalls[j].op = "create_buffer"
                             /\ NewCalls[j].res = NewCalls[i].res
                    /\ IsUpload(NewCalls, i)
      ]_vars

\* C2 witness: the asset pass has bound a resource that was in the cache
\* before the frame and has copied a staging buffer into it.
C2_Witness ==
    /\ pc = "direct"
    /\ \E i \in DOMAIN renderer.calls :
          /\ IsCacheHit(renderer.calls, i)
          /\ IsUpload(renderer.calls, i)
          /\ \A j \in CallsOf(renderer.calls, "create_buffer") :
                renderer.calls[j].res # renderer.calls[i].res

\* the GPU buffer the provider holds for the dynamic buffer of a name, if any
DynamicResource(p, name) ==
    IF name \in DOMAIN p.uniform_buffer_info_resources
    THEN p.uniform_buffer_info_resources[name].resource
    ELSE NoResource

\* the live entities whose value has a Uniform binding of the name
LiveRegistered(name) ==
    {e \in LiveDirect : name \in UniformNamesOf(component[e].value)}

\* C3: Growth law.  The step that first allocates the dynamic buffer of a
\* name, with n entities registered in the frame, records the capacity 2n
\* and creates the buffer with 256 * 2n bytes; from then on no step changes
\* the buffer handle, the recorded capacity or the size of the buffer,
\* whatever the number of registered entities becomes.
C3_GrowthLaw ==
    [][ \A name \in AllNames :
          LET before == DynamicResource(provider, name)
              after == DynamicResource(provider', name)
              n == Cardinality(LiveRegistered(name))
          IN  /\ (before = NoResource /\ after # NoResource) =>
                    /\ pc = "dynamic"
                    /\ renderer'.dynamic_uniform_buffer_infos[after].capacity = 2 * n
                    /\ renderer'.resources[after].kind = "buffer"
                    /\ renderer'.resources[after].size = 256 * 2 * n
                    /\ \E i \in CallsOf(NewCalls, "create_buffer") :
                          /\ NewCalls[i].res = after
                          /\ NewCalls[i].size = 256 * 2 * n
              /\ before # NoResource =>
                    /\ after = before
                    /\ renderer'.dynamic_uniform_buffer_infos[before].capacity
                          = renderer.dynamic_uniform_buffer_infos[before].capacity
                    /\ renderer'.resources[before] = renderer.resources[before]
                    /\ \A i \in CallsOf(NewCalls, "create_buffer") :
                          NewCalls[i].res # before
      ]_vars

\* C3 witness: a completed update has left more registered entities in a
\* dynamic buffer than the capacity recorded at its first allocation.
C3_Witness ==
    /\ pc = "done"
    /\ \E name \in AllNames :
          /\ DynamicResource(provider, name) # NoResource
          /\ LET info == renderer.dynamic_uniform_buffer_infos[
                            DynamicResource(provider, name)]
             IN  /\ info.capacity = 2
                 /\ info.count = 3
                 /\ Cardinality(LiveRegistered(name)) = 3

\* the DynamicUniformBufferInfo entries the renderer holds
Infos == renderer.dynamic_uniform_buffer_infos

\* C4: Offset uniqueness across frames.  After a completed update, no two
\* entities of the offsets mapping of a dynamic buffer have the same offset.
C4_OffsetsUnique ==
    pc = "done" =>
        \A res \in DOMAIN Infos :
            \A e1, e2 \in DOMAIN Infos[res].offsets :
                e1 # e2 => Infos[res].offsets[e1] # Infos[res].offsets[e2]

\* C5: Registration reset.  After a completed update the registration set
\* of every dynamic buffer holds exactly the entities registered in that
\* update, and no entity that has left the world has an offset.
C5_RegistrationReset ==
    pc = "done" =>
        /\ \A name \in DOMAIN provider.uniform_buffer_info_resources :
              provider.uniform_buffer_info_resources[name].entities
                  = LiveRegistered(name)
        /\ \A res \in DOMAIN Infos :
              DOMAIN Infos[res].offsets \subseteq Range(world)

\* the entities of the registration set of a name that the query iterates
\* before position i of the world
RegisteredBefore(entities, i) ==
    {j \in 1..(i - 1) : world[j] \in LiveDirect /\ world[j] \in entities}

\* C6: Offset assignment per frame.  The pass that assigns the offsets gives
\* the k-th iterated entity of the registration set of a buffer the offset
\* (k - 1) * 256, so the n entities get 0, 256, ..., (n - 1) * 256 in
\* query-iteration order; an iterated entity outside the registration set
\* gets no offset and does not advance the counter.
C6_OffsetAssignment ==
    [][ (pc = "dynamic" /\ pc' = "defs") =>
          \A name \in DOMAIN provider'.uniform_buffer_info_resources :
            LET entry == provider'.uniform_buffer_info_resources[name]
                before == IF entry.resource \in DOMAIN Infos
                          THEN Infos[entry.resource].offsets ELSE Empty
                after == renderer'.dynamic_uniform_buffer_infos[entry.resource].offsets
            IN  \A i \in DOMAIN world :
                  world[i] \in LiveDirect =>
                    IF world[i] \in entry.entities
                    THEN /\ world[i] \in DOMAIN after
                         /\ after[world[i]]
                              = 256 * Cardinality(RegisteredBefore(entry.entities, i))
                         /\ after[world[i]] % 256 = 0
                    ELSE world[i] \in DOMAIN after =>
                            /\ world[i] \in DOMAIN before
                            /\ after[world[i]] = before[world[i]]
      ]_vars

\* C6 witness: the query iterates an entity outside the registration set of
\* a buffer first and then two registered entities, which hold 0 and 256.
C6_Witness ==
    /\ pc = "defs"
    /\ Len(world) = 3
    /\ Range(world) \subseteq LiveDirect
    /\ \E name \in DOMAIN provider.uniform_buffer_info_resources :
          LET entry == provider.uniform_buffer_info_resources[name]
              offsets == Infos[entry.resource].offsets
          IN  /\ world[1] \notin entry.entities
              /\ world[1] \notin DOMAIN offsets
              /\ world[2] \in entry.entities
              /\ world[3] \in entry.entities
              /\ offsets[world[2]] = 0
              /\ offsets[world[3]] = 256

\* C7: Missing asset is not an error.  The last pass of an update that runs
\* while an asset-backed entity's handle has no value in the asset store
\* completes the update.
C7_MissingAssetSkipped ==
    [][ ( /\ pc = "defs"
          /\ \E e \in LiveBacked : component[e].handle \notin assets )
        => pc' = "done" ]_vars

\* the value the bindings of an entity are taken from
ValueOf(e) ==
    IF component[e].tag = "direct" THEN component[e].value
    ELSE AssetValue(component[e].handle)

\* the texture handle of the binding of the kind and name in the value of
\* an entity, if it has one
TextureOf(e, kind, name) ==
    LET found == {b \in Range(get_field_infos(ValueOf(e))) :
                      b.kind = kind /\ b.name = name}
    IN  IF found = {} THEN NoHandle ELSE (CHOOSE b \in found : TRUE).texture

\* the create calls of the operation for the texture handle among the calls
CreatesFor(calls, op, texture) ==
    {i \in CallsOf(calls, op) : calls[i].key = texture}

\* C8: Texture dedup.  A step calls create_texture for a texture handle at
\* most once, and only when the texture cache has no entry for it; an entry
\* keeps its resource; every binding of a SampledTexture slot a step makes
\* names the resource the cache holds for the texture handle of the slot.
C8_TextureDedup ==
    [][ /\ \A t \in TextureHandles :
              IF t \in DOMAIN renderer.texture_resources
              THEN /\ t \in DOMAIN renderer'.texture_resources
                   /\ renderer'.texture_resources[t] = renderer.texture_resources[t]
                   /\ CreatesFor(NewCalls, "create_texture", t) = {}
              ELSE /\ Cardinality(CreatesFor(NewCalls, "create_texture", t)) <= 1
                   /\ \A i \in CreatesFor(NewCalls, "create_texture", t) :
                         /\ t \in DOMAIN renderer'.texture_resources
                         /\ renderer'.texture_resources[t] = NewCalls[i].res
                   /\ t \in DOMAIN renderer'.texture_resources
                         => CreatesFor(NewCalls, "create_texture", t) # {}
        /\ \A i \in CallsOf(NewCalls, "set_entity_uniform_resource") :
              LET t == TextureOf(NewCalls[i].entity, "SampledTexture", NewCalls[i].name)
              IN  t # NoHandle =>
                    /\ t \in DOMAIN renderer'.texture_resources
                    /\ NewCalls[i].res = renderer'.texture_resources[t]
      ]_vars

\* C8 witness: one frame has bound the SampledTexture slot of two entities
\* to the one texture its single create_texture call made.
C8_Witness ==
    /\ pc = "done"
    /\ \E t \in DOMAIN renderer.texture_resources :
          /\ Cardinality(CreatesFor(renderer.calls, "create_texture", t)) = 1
          /\ \E e1, e2 \in Range(world) :
                /\ e1 # e2
                /\ TextureOf(e1, "SampledTexture", "Tex") = t
                /\ TextureOf(e2, "SampledTexture", "Tex") = t
                /\ << e1, "Tex" >> \in DOMAIN renderer.entity_uniform_resources
                /\ << e2, "Tex" >> \in DOMAIN renderer.entity_uniform_resources
                /\ renderer.entity_uniform_resources[<< e1, "Tex" >>]
                      = renderer.texture_resources[t]
                /\ renderer.entity_uniform_resources[<< e2, "Tex" >>]
                      = renderer.texture_resources[t]

\* C9: Shared-handle binding.  After a completed update every live
\* asset-backed entity whose asset is loaded is bound, for each Uniform
\* binding name of the asset, to the resource the static cache holds for
\* (its handle, the name).
C9_SharedHandleBinding ==
    pc = "done" =>
        \A e \in LiveBacked :
            (asset_storage /\ component[e].handle \in assets) =>
                \A name \in UniformNamesOf(AssetValue(component[e].handle)) :
                    /\ Cached(provider, component[e].handle, name) # NoResource
                    /\ << e, name >> \in DOMAIN renderer.entity_uniform_resources
                    /\ renderer.entity_uniform_resources[<< e, name >>]
                          = Cached(provider, component[e].handle, name)

\* C9 witness: two live entities reference the same loaded handle and a
\* completed update has bound both to the one cached resource of a name.
C9_Witness ==
    /\ pc = "done"
    /\ \E e1, e2 \in LiveBacked, name \in AllNames :
          /\ e1 # e2
          /\ component[e1].handle = component[e2].handle
          /\ component[e1].handle \in assets
          /\ Cached(provider, component[e1].handle, name) # NoResource
          /\ << e1, name >> \in DOMAIN renderer.entity_uniform_resources
          /\ << e2, name >> \in DOMAIN renderer.entity_uniform_resources
          /\ renderer.entity_uniform_resources[<< e1, name >>]
                = renderer.entity_uniform_resources[<< e2, name >>]

\* C10: Count recomputation.  After a completed update the logical count of
\* every dynamic buffer, in the provider and in the renderer's info, is the
\* number of live direct-valued entities registered for the name in that
\* update.
C10_CountRecomputed ==
    pc = "done" =>
        \A name \in DOMAIN provider.uniform_buffer_info_resources :
            LET entry == provider.uniform_buffer_info_resources[name]
            IN  /\ entry.count = Cardinality(LiveRegistered(name))
                /\ Infos[entry.resource].count = Cardinality(LiveRegistered(name))

\* C10 witness: the second update has recorded a count below the number of
\* entities that have registered for the buffer over both frames.
C10_Witness ==
    /\ pc = "done"
    /\ frame = 2
    /\ \E name \in DOMAIN provider.uniform_buffer_info_resources :
          LET entry == provider.uniform_buffer_info_resources[name]
          IN  /\ Infos[entry.resource].count = 1
              /\ Cardinality(entry.entities) = 3

\* the staging buffers of the frame that are copied into the resource:
\* call i maps the buffer and call i + 1 copies it
StagingOf(calls, resource) ==
    {i \in CallsOf(calls, "create_buffer_mapped") :
        /\ i + 1 <= Len(calls)
        /\ calls[i + 1].op = "copy_buffer_to_buffer"
        /\ calls[i + 1].src = calls[i].res
        /\ calls[i + 1].res = resource}

\* C11: Packed bytes match the offset table.  After Phase B, every write
\* into the staging buffer of a dynamic buffer starts at the offset the
\* offsets mapping of the buffer records for the entity the bytes belong to.
C11_PackedAtOffsets ==
    pc \in {"defs", "done"} =>
        \A res \in DOMAIN Infos :
            \A i \in StagingOf(renderer.calls, res) :
                \A k \in DOMAIN renderer.calls[i].writes :
                    LET write == renderer.calls[i].writes[k]
                    IN  /\ write[1] \in DOMAIN Infos[res].offsets
                        /\ write[2] = Infos[res].offsets[write[1]]

\* the value declares a Uniform binding that yields bytes from neither
\* accessor
YieldsNoBytes(uniforms) ==
    \E b \in Range(get_field_infos(uniforms)) : b.kind = "Uniform" /\ b.bytes = "none"

\* C12: No-bytes is fatal on both paths.  An update never completes while a
\* live entity it resolved, direct or asset-backed, has a Uniform binding
\* that yields no bytes.
C12_NoBytesIsFatal ==
    pc = "done" =>
        /\ \A e \in LiveDirect : ~YieldsNoBytes(component[e].value)
        /\ \A e \in LiveBacked :
              (asset_storage /\ component[e].handle \in assets)
                  => ~YieldsNoBytes(AssetValue(component[e].handle))

\* the registrations of the provider: name -> count and registration set
Registrations(p) ==
    [name \in DOMAIN p.uniform_buffer_info_resources |->
        [count |-> p.uniform_buffer_info_resources[name].count,
         entities |-> p.uniform_buffer_info_resources[name].entities]]

BufferOps == {"create_buffer", "create_buffer_mapped", "copy_buffer_to_buffer",
              "remove_buffer"}

\* C13: Update step order.  A frame, started by initialize() or by update(),
\* first resets every count to 0, then resolves the asset-backed entities
\* (no registration, no dynamic buffer touched), then registers the direct
\* entities (every live one, no buffer allocated or copied yet), then runs
\* Phase B once (one staging copy per dynamic buffer, registrations as they
\* were), and propagates the shader flags last (nothing else changes).
C13_StepOrder ==
    [][ /\ frame' = frame + 1 =>
              /\ pc \in {"idle", "done"}
              /\ pc' \in {"assets", "aborted"}
              /\ \A name \in DOMAIN provider'.uniform_buffer_info_resources :
                    provider'.uniform_buffer_info_resources[name].count = 0
              /\ pc' = "assets" =>
                    \A res \in DOMAIN renderer'.dynamic_uniform_buffer_infos :
                        renderer'.dynamic_uniform_buffer_infos[res].count = 0
              /\ shader_defs' = shader_defs
        /\ pc = "assets" =>
              /\ pc' \in {"direct", "aborted"}
              /\ provider'.uniform_buffer_info_resources
                    = provider.uniform_buffer_info_resources
              /\ renderer'.dynamic_uniform_buffer_infos = Infos
              /\ shader_defs' = shader_defs
        /\ pc = "direct" =>
              /\ pc' \in {"dynamic", "aborted"}
              /\ provider'.asset_resources = provider.asset_resources
              /\ renderer'.dynamic_uniform_buffer_infos = Infos
              /\ shader_defs' = shader_defs
              /\ \A i \in DOMAIN NewCalls : NewCalls[i].op \notin BufferOps
              /\ pc' = "dynamic" =>
                    \A name \in AllNames :
                        LiveRegistered(name) # {} =>
                            /\ name \in DOMAIN provider'.uniform_buffer_info_resources
                            /\ provider'.uniform_buffer_info_resources[name].count
                                  = Cardinality(LiveRegistered(name))
        /\ pc = "dynamic" =>
              /\ pc' \in {"defs", "aborted"}
              /\ Registrations(provider') = Registrations(provider)
              /\ provider'.asset_resources = provider.asset_resources
              /\ shader_defs' = shader_defs
              /\ pc' = "defs" =>
                    /\ \A name \in DOMAIN provider'.uniform_buffer_info_resources :
                          Cardinality(StagingOf(NewCalls,
                              DynamicResource(provider', name))) = 1
                    /\ Cardinality(CallsOf(NewCalls, "copy_buffer_to_buffer"))
                          = Cardinality(DOMAIN provider'.uniform_buffer_info_resources)
        /\ pc = "defs" =>
              /\ pc' \in {"done", "aborted"}
              /\ provider' = provider
              /\ renderer' = renderer
      ]_vars

\* C13 witness: initialize() and one update() have both run to the end with
\* an asset-backed entity bound, a direct entity packed and a flag set.
C13_Witness ==
    /\ pc = "done"
    /\ frame = 2
    /\ \E i \in CallsOf(renderer.calls, "set_entity_uniform_resource") :
          renderer.calls[i].entity \in LiveBacked
    /\ \E res \in DOMAIN Infos :
          \E i \in StagingOf(renderer.calls, res) :
              renderer.calls[i].writes # << >>
    /\ \E e \in Range(world) : "TEXTURED" \in shader_defs[e]

\* the persistent buffers the provider holds: the cached asset buffers and
\* the dynamic buffers
PersistentBuffers ==
    ({Cached(provider, pair[1], pair[2]) : pair \in Pairs}
        \cup {DynamicResource(provider, name) : name \in AllNames})
        \ {NoResource}

\* C14: Staging buffer lifecycle.  In the calls of a frame, every
\* create_buffer_mapped is followed at once by the one copy_buffer_to_buffer
\* that reads the staging buffer and then by its one remove_buffer; only
\* staging buffers are copied from or removed; after a completed update no
\* staging buffer is live and every persistent buffer still is.
C14_StagingLifecycle ==
    LET calls == renderer.calls
        mapped == CallsOf(calls, "create_buffer_mapped")
        copies == CallsOf(calls, "copy_buffer_to_buffer")
        removes == CallsOf(calls, "remove_buffer")
    IN  /\ \A i \in mapped :
              /\ i + 2 <= Len(calls)
              /\ {j \in copies : calls[j].src = calls[i].res} = {i + 1}
              /\ {j \in removes : calls[j].res = calls[i].res} = {i + 2}
              /\ calls[i + 1].res # calls[i].res
        /\ \A j \in copies : \E i \in mapped : calls[i].res = calls[j].src
        /\ \A j \in removes : \E i \in mapped : calls[i].res = calls[j].res
        /\ pc = "done" =>
              /\ \A id \in DOMAIN renderer.resources :
                    renderer.resources[id].kind # "mapped"
              /\ \A id \in PersistentBuffers :
                    /\ id \in DOMAIN renderer.resources
                    /\ renderer.resources[id].kind = "buffer"

\* C14 witness: a completed update that staged an asset upload and a packed
\* dynamic buffer.
C14_Witness ==
    /\ pc = "done"
    /\ \E res \in DOMAIN Infos :
          \E i \in StagingOf(renderer.calls, res) :
              renderer.calls[i].writes # << >>
    /\ \E pair \in Pairs :
          /\ Cached(provider, pair[1], pair[2]) # NoResource
          /\ StagingOf(renderer.calls, Cached(provider, pair[1], pair[2])) # {}

\* C15: Reset frame.  The step that starts an update sets the count of every
\* dynamic buffer info (and of every entry of the provider's table) to 0 and
\* leaves the buffer handle, the capacity and the offsets of each as they
\* were; the static cache, the texture cache, the sampler cache, the live
\* resources and the bindings of the entities do not change.
C15_ResetFrame ==
    [][ (frame' = frame + 1 /\ pc' = "assets") =>
            /\ DOMAIN renderer'.dynamic_uniform_buffer_infos = DOMAIN Infos
            /\ \A res \in DOMAIN Infos :
                  renderer'.dynamic_uniform_buffer_infos[res]
                      = [Infos[res] EXCEPT !.count = 0]
            /\ \A name \in AllNames :
                  /\ DynamicResource(provider', name) = DynamicResource(provider, name)
                  /\ name \in DOMAIN provider'.uniform_buffer_info_resources =>
                        provider'.uniform_buffer_info_resources[name].count = 0
            /\ provider'.asset_resources = provider.asset_resources
            /\ renderer'.texture_resources = renderer.texture_resources
            /\ renderer'.texture_sampler_resources = renderer.texture_sampler_resources
            /\ renderer'.resources = renderer.resources
            /\ renderer'.named_resources = renderer.named_resources
            /\ renderer'.entity_uniform_resources = renderer.entity_uniform_resources
      ]_vars

\* C15 witness: the second frame has just reset a buffer that holds offsets,
\* with the three caches filled.
C15_Witness ==
    /\ pc = "assets"
    /\ frame = 2
    /\ \E res \in DOMAIN Infos :
          /\ Infos[res].count = 0
          /\ Infos[res].capacity > 0
          /\ Infos[res].offsets # Empty
    /\ provider.asset_resources # Empty
    /\ renderer.texture_resources # Empty
    /\ renderer.texture_sampler_resources # Empty

\* the shader defs the data of a live entity declares, as far as the pass can
\* read the data
DeclaredDefs(e) ==
    IF e \in LiveDirect THEN get_shader_defs(component[e].value)
    ELSE IF e \in LiveBacked /\ asset_storage /\ component[e].handle \in assets
         THEN get_shader_defs(AssetValue(component[e].handle))
         ELSE {}

\* C16: Shader-flag propagation is a pure union.  The shader-def pass keeps
\* every flag an entity had and adds only flags the entity's data declares;
\* when it completes, every live direct and every live asset-backed entity
\* has all the flags its data declares; the pass changes neither the
\* provider nor the renderer (no resource, cache, binding or dynamic buffer
\* state, no call).
C16_ShaderDefsUnion ==
    [][ pc = "defs" =>
            /\ DOMAIN shader_defs' = DOMAIN shader_defs
            /\ \A e \in DOMAIN shader_defs :
                  /\ shader_defs[e] \subseteq shader_defs'[e]
                  /\ shader_defs'[e] \subseteq shader_defs[e] \cup DeclaredDefs(e)
            /\ pc' = "done" =>
                  \A e \in LiveDirect \cup LiveBacked :
                      /\ DeclaredDefs(e) \subseteq shader_defs'[e]
                      /\ (e \in LiveBacked /\ asset_storage) =>
                            component[e].handle \in assets
            /\ provider' = provider
            /\ renderer' = renderer
      ]_vars

\* C16 witness: a completed update where a direct entity kept the flag the
\* application gave it, another got the flag of its value and an
\* asset-backed entity got the flag of its asset.
C16_Witness ==
    /\ pc = "done"
    /\ \E e \in LiveDirect : "INSTANCED" \in shader_defs[e]
    /\ \E e \in LiveDirect : "TEXTURED" \in shader_defs[e]
    /\ \E e \in LiveBacked : "TINTED" \in shader_defs[e]

\* the kind of the live resource a handle names
KindOf(r, resource) ==
    IF resource \in DOMAIN r.resources THEN r.resources[resource].kind ELSE "none"

\* C17: Texture and sampler caches are independent.  A step calls
\* create_sampler for a texture handle at most once and only when the
\* sampler cache has no entry for it, whatever the texture cache holds, and
\* an entry keeps its resource; each cache gets an entry exactly from its own
\* create call; every Sampler slot a step binds names the sampler the sampler
\* cache holds and every SampledTexture slot the texture the texture cache
\* holds, so neither cache answers for the other.
C17_CachesIndependent ==
    [][ /\ \A t \in TextureHandles :
              /\ IF t \in DOMAIN renderer.texture_sampler_resources
                 THEN /\ t \in DOMAIN renderer'.texture_sampler_resources
                      /\ renderer'.texture_sampler_resources[t]
                            = renderer.texture_sampler_resources[t]
                      /\ CreatesFor(NewCalls, "create_sampler", t) = {}
                 ELSE /\ Cardinality(CreatesFor(NewCalls, "create_sampler", t)) <= 1
                      /\ \A i \in CreatesFor(NewCalls, "create_sampler", t) :
                            /\ t \in DOMAIN renderer'.texture_sampler_resources
                            /\ renderer'.texture_sampler_resources[t] = NewCalls[i].res
                      /\ t \in DOMAIN renderer'.texture_sampler_resources
                            => CreatesFor(NewCalls, "create_sampler", t) # {}
              /\ (t \in DOMAIN renderer'.texture_resources
                     /\ t \notin DOMAIN renderer.texture_resources)
                    => CreatesFor(NewCalls, "create_texture", t) # {}
              /\ t \in DOMAIN renderer.texture_resources
                    => CreatesFor(NewCalls, "create_texture", t) = {}
        /\ \A i \in CallsOf(NewCalls, "set_entity_uniform_resource") :
              LET sampler == TextureOf(NewCalls[i].entity, "Sampler", NewCalls[i].name)
                  texture == TextureOf(NewCalls[i].entity, "SampledTexture",
                                       NewCalls[i].name)
              IN  /\ sampler # NoHandle =>
                        /\ sampler \in DOMAIN renderer'.texture_sampler_resources
                        /\ NewCalls[i].res = renderer'.texture_sampler_resources[sampler]
                        /\ KindOf(renderer', NewCalls[i].res) = "sampler"
                  /\ texture # NoHandle =>
                        /\ texture \in DOMAIN renderer'.texture_resources
                        /\ NewCalls[i].res = renderer'.texture_resources[texture]
                        /\ KindOf(renderer', NewCalls[i].res) = "texture"
      ]_vars

\* C17 witness: the second frame bound a Sampler slot to the cached sampler
\* with no create_sampler, and created the texture of the same handle, which
\* the first frame had left without a texture-cache entry.
C17_Witness ==
    /\ pc = "done"
    /\ frame = 2
    /\ \E t \in DOMAIN renderer.texture_sampler_resources :
          /\ CreatesFor(renderer.calls, "create_sampler", t) = {}
          /\ Cardinality(CreatesFor(renderer.calls, "create_texture", t)) = 1
          /\ \E i \in CallsOf(renderer.calls, "set_entity_uniform_resource") :
                /\ renderer.calls[i].name = "TexSampler"
                /\ renderer.calls[i].res = renderer.texture_sampler_resources[t]
          /\ \E i \in CallsOf(renderer.calls, "set_entity_uniform_resource") :
                /\ renderer.calls[i].name = "Tex"
                /\ renderer.calls[i].res = renderer.texture_resources[t]

\* C18: Copies stay in bounds.  Every copy_buffer_to_buffer of the frame
\* copies no more bytes than its destination buffer was created with.
C18_CopiesInBounds ==
    \A i \in CallsOf(renderer.calls, "copy_buffer_to_buffer") :
        /\ renderer.calls[i].res \in DOMAIN renderer.resources
        /\ renderer.calls[i].size <= renderer.resources[renderer.calls[i].res].size

\* every entry of the provider's dynamic buffer table of the state has a
\* buffer, the buffer is live and has an info, and the buffer is the named
\* resource of the binding name
EntriesBacked(s) ==
    \A name \in DOMAIN s.p.uniform_buffer_info_resources :
        LET resource == s.p.uniform_buffer_info_resources[name].resource
        IN  /\ resource # NoResource
            /\ KindOf(s.r, resource) = "buffer"
            /\ resource \in DOMAIN s.r.dynamic_uniform_buffer_infos
            /\ name \in DOMAIN s.r.named_resources
            /\ s.r.named_resources[name] = resource

\* C19: Every dynamic entry is backed between frames.  Between two frames
\* (before the first and after a completed update, whatever the world did
\* since) every name of the provider's dynamic buffer table has a buffer
\* handle with an info in the renderer, registered as the named resource of
\* the name, and the reset of the next update succeeds; once the entities of
\* a frame are registered, the allocation pass succeeds and leaves every
\* entry backed, so the lookups of the offsets pass succeed.
C19_EntriesBacked ==
    /\ pc \in {"idle", "done"} =>
          /\ EntriesBacked(State(provider, renderer, TRUE))
          /\ reset_counts(State(provider, renderer, TRUE), 1).ok
    /\ pc = "dynamic" =>
          LET allocated == allocate_uniform_buffers(State(provider, renderer, TRUE), 1)
          IN  /\ allocated.ok
              /\ EntriesBacked(allocated)
    /\ pc = "defs" => EntriesBacked(State(provider, renderer, TRUE))

\* C19 witness: after a frame and a change of the world that leaves no
\* direct entity, both binding names have their own dynamic buffer.
C19_Witness ==
    /\ pc = "idle"
    /\ frame = 1
    /\ LiveDirect = {}
    /\ DOMAIN provider.uniform_buffer_info_resources = {"Color", "Tint"}
    /\ DynamicResource(provider, "Color") # DynamicResource(provider, "Tint")
    /\ DynamicResource(provider, "Color") \in DOMAIN Infos
    /\ DynamicResource(provider, "Tint") \in DOMAIN Infos

\* lines 336-357: one whole update() of the provider on a world, from the
\* reset of the counts to the end of Phase B
update(s, w, comp, storage, loaded_assets, loaded_textures) ==
    LET s0 == reset_counts(State(s.p, [s.r EXCEPT !.calls = << >>], TRUE), 1)
        s1 == IF s0.ok /\ storage
              THEN update_asset_uniforms(s0, handle_query(w, comp), 1, comp,
                                         loaded_assets, loaded_textures)
              ELSE s0
        s2 == IF s1.ok
              THEN register_entities(s1, resource_query(w, comp), 1, comp,
                                     loaded_textures)
              ELSE s1
    IN  IF s2.ok
        THEN setup_dynamic_uniform_buffers(s2, resource_query(w, comp), comp)
        ELSE s2

\* the update that would follow at once, on the world as it is
UpdateAgain ==
    update(State(provider, renderer, TRUE), world, component, asset_storage, assets,
           textures)

PersistentCreates == {"create_buffer", "create_texture", "create_sampler"}

\* C20: Update is idempotent on an unchanged world.  An update that follows
\* a completed update with the same entities and the same asset stores
\* completes, creates no persistent buffer, texture or sampler, and leaves
\* the provider (dynamic buffer handles, counts, registrations, static
\* cache) and the renderer (infos with count, capacity and offsets, texture
\* and sampler caches, named resources, live resources, entity bindings) as
\* the first update left them; its shader-def pass adds no flag.
C20_Idempotent ==
    pc = "done" =>
        /\ LET again == UpdateAgain
           IN  /\ again.ok
               /\ again.p = provider
               /\ [again.r EXCEPT !.calls = << >>] = [renderer EXCEPT !.calls = << >>]
               /\ \A i \in DOMAIN again.r.calls :
                     again.r.calls[i].op \notin PersistentCreates
        /\ insert_direct_defs(shader_defs, world, component) = shader_defs
        /\ asset_storage =>
              insert_asset_defs([defs |-> shader_defs, ok |-> TRUE],
                                handle_query(world, component), 1, component, assets)
                  = [defs |-> shader_defs, ok |-> TRUE]

\* C20 witness: a completed update of a world with direct and asset-backed
\* entities and a texture, whose repetition uploads again on both paths.
C20_Witness ==
    /\ pc = "done"
    /\ LiveDirect # {}
    /\ LiveBacked # {}
    /\ renderer.texture_resources # Empty
    /\ renderer.texture_sampler_resources # Empty
    /\ \E res \in DOMAIN Infos : StagingOf(UpdateAgain.r.calls, res) # {}
    /\ \E pair \in Pairs :
          StagingOf(UpdateAgain.r.calls, Cached(provider, pair[1], pair[2])) # {}

====
